---- MODULE Spec2Model ----
(***************************************************************************)
(* Model of the calendar tool handlers of src/tools.py: create_event,      *)
(* list_event, change_event and cancel_event, with the date resolver       *)
(* parse_datetime_for_api they share.  The Google Calendar service is an   *)
(* external collaborator: every response it gives (a value, an HttpError,  *)
(* another exception) is drawn nondeterministically.                       *)
(*                                                                         *)
(* Time.  A datetime is a record [w, aware, off]: w is the wall-clock      *)
(* reading in ticks, two ticks per minute, counted from local midnight of  *)
(* 2025-06-04 (the day the model takes as "today"); an odd tick stands for *)
(* the last representable instant of its minute (:59.999999), which is all *)
(* that time.max needs.  aware says whether the datetime carries a UTC     *)
(* offset, off is that offset in ticks (0 when naive).                     *)
(*                                                                         *)
(* Python's Optional[T] is a sequence: None is << >>, a value v is <<v>>.  *)
(*                                                                         *)
(* Three specifications share the variables.  Spec runs one handler        *)
(* invocation at a time against nondeterministic answers.  SpecShared runs *)
(* two invocations of change_event or cancel_event, and another client,    *)
(* against one calendar that answers from its contents.  SpecChat runs the *)
(* /chat endpoint of src/api.py, whose requests are suspended while the    *)
(* agent run is awaited.  Each leaves the variables of the others alone.   *)
(***************************************************************************)
EXTENDS Integers, Sequences, FiniteSets, TLC

None == << >>
Some(v) == << v >>
Val(o) == o[1]

\* Python truthiness of an Optional[str]: None and "" are falsy.
TruthyStr(o) == o # None /\ Val(o) # ""
\* Python truthiness of an Optional[int]: None and 0 are falsy.
TruthyInt(o) == o # None /\ Val(o) # 0

---------------------------------------------------------------------------
\* Clock

TicksPerMinute == 2
MinutesPerDay == 1440
TicksPerDay == MinutesPerDay * TicksPerMinute

\* gettz(): the UTC offset of the local zone (UTC+02:00), in minutes.
LocalOffsetMinutes == 120
local_tz == LocalOffsetMinutes * TicksPerMinute

\* Default event length of create_event, in minutes.
DefaultDurationMinutes == 60
\* Ceiling of list_event's maxResults.
MaxResultsCeiling == 250

Naive(w) == [w |-> w, aware |-> FALSE, off |-> 0]
Aware(w, off) == [w |-> w, aware |-> TRUE, off |-> off]

\* Wall-clock tick of day d (0 = 2025-06-04) at hh:mm.
At(d, hh, mm) == d * TicksPerDay + (hh * 60 + mm) * TicksPerMinute

\* datetime.now(local_tz): 2025-06-04T09:30 local.
now_local == Aware(At(0, 9, 30), local_tz)
\* now_local.date(), as the tick of its midnight.
DateOf(dt) == dt.w - (dt.w % TicksPerDay)
today_local_date == DateOf(now_local)
\* dt.time(), as ticks since midnight.
TimeOf(dt) == dt.w % TicksPerDay
time_min == 0
time_max == TicksPerDay - 1

\* datetime.combine(date_part, time_part, tzinfo=local_tz)
_combine_dt(date_part, time_part) == Aware(date_part + time_part, local_tz)

\* timedelta(minutes=m), in ticks.
timedelta(m) == m * TicksPerMinute
\* dt + delta keeps the tzinfo of dt.
DtAdd(dt, delta) == [dt EXCEPT !.w = dt.w + delta]

\* date.max (9999-12-31) as a day number.  The calendar of the model ends
\* on day MaxDay: the true distance from 2025 to year 9999, counted in ticks,
\* is beyond the integers of the model, and only the order of a datetime
\* relative to datetime.max decides whether an addition overflows.
MaxDay == 36500
\* datetime.max: 23:59:59.999999 on date.max.
datetime_max == Naive(MaxDay * TicksPerDay + time_max)
\* dt + delta raises OverflowError ("date value out of range") when the
\* wall clock of the sum is after datetime.max.
Overflows(dt, delta) == dt.w + delta > datetime_max.w

\* The instant of an aware datetime: its wall clock less its offset.
Instant(dt) == dt.w - dt.off
\* Python raises TypeError when one operand is naive and the other aware.
Comparable(a, b) == a.aware = b.aware
\* a <= b for two comparable datetimes.
DtLeq(a, b) == Instant(a) <= Instant(b)
\* a - b for two comparable datetimes: a timedelta.
DtSub(a, b) == Instant(a) - Instant(b)

---------------------------------------------------------------------------
\* ISO-8601 strings.  An ISO string is a record [fmt, w, aware, off]: fmt is
\* "dateTime" for YYYY-MM-DDTHH:MM:SS[.ffffff][+HH:MM] and "date" for YYYY-MM-DD.

IsoDateTime(dt) == [fmt |-> "dateTime", w |-> dt.w, aware |-> dt.aware, off |-> dt.off]
IsoDate(d) == [fmt |-> "date", w |-> d * TicksPerDay, aware |-> FALSE, off |-> 0]

\* datetime.isoformat(): always the date-and-time form.
isoformat(dt) == IsoDateTime(dt)
\* dateutil.parser.isoparse: a date-only string gives naive midnight.
isoparse(iso) == [w |-> iso.w, aware |-> iso.aware, off |-> iso.off]

---------------------------------------------------------------------------
\* parse_datetime_for_api

\* The date/time strings the handlers are run on.
RelativeInputs == {"Tomorrow", "end_of_today", "now", "today"}
IsoInputs == {"2025-06-05T14:00:00", "2025-06-05T15:00:00",
              "2025-06-05T13:00:00Z", "2025-06-05", "2025-06-05T00:00:00Z",
              "9999-12-31T23:30:00"}
BadInputs == {"not a date"}
TimeStrings == RelativeInputs \cup IsoInputs \cup BadInputs \cup {""}

\* datetime_str.lower().strip().replace("_", " ") on TimeStrings.
normalized(datetime_str) ==
    CASE datetime_str = "Tomorrow" -> "tomorrow"
      [] datetime_str = "end_of_today" -> "end of today"
      [] datetime_str = "2025-06-05T14:00:00" -> "2025-06-05t14:00:00"
      [] datetime_str = "2025-06-05T15:00:00" -> "2025-06-05t15:00:00"
      [] datetime_str = "2025-06-05T13:00:00Z" -> "2025-06-05t13:00:00z"
      [] datetime_str = "2025-06-05T00:00:00Z" -> "2025-06-05t00:00:00z"
      [] datetime_str = "9999-12-31T23:30:00" -> "9999-12-31t23:30:00"
      [] OTHER -> datetime_str

\* The table of relative phrases: key -> the datetime its lambda returns.
relative_date_handlers ==
    [key \in {"now", "today", "start of today", "beginning of today",
              "end of today", "tonight", "tomorrow", "start of tomorrow",
              "beginning of tomorrow", "end of tomorrow", "yesterday",
              "start of yesterday", "beginning of yesterday", "end of yesterday"} |->
        CASE key = "now" -> now_local
          [] key \in {"today", "start of today", "beginning of today"} ->
                _combine_dt(today_local_date, time_min)
          [] key \in {"end of today", "tonight"} ->
                _combine_dt(today_local_date, time_max)
          [] key \in {"tomorrow", "start of tomorrow", "beginning of tomorrow"} ->
                _combine_dt(today_local_date + TicksPerDay, time_min)
          [] key = "end of tomorrow" ->
                _combine_dt(today_local_date + TicksPerDay, time_max)
          [] key \in {"yesterday", "start of yesterday", "beginning of yesterday"} ->
                _combine_dt(today_local_date - TicksPerDay, time_min)
          [] OTHER ->
                _combine_dt(today_local_date - TicksPerDay, time_max)]

\* dateutil.parser.parse on TimeStrings: the parsed datetime, or None for a
\* ValueError.  A string without zone parses naive; "Z" parses as UTC.
dateutil_parse(datetime_str) ==
    CASE datetime_str = "2025-06-05T14:00:00" -> Some(Naive(At(1, 14, 0)))
      [] datetime_str = "2025-06-05T15:00:00" -> Some(Naive(At(1, 15, 0)))
      [] datetime_str = "2025-06-05T13:00:00Z" -> Some(Aware(At(1, 13, 0), 0))
      [] datetime_str = "2025-06-05" -> Some(Naive(At(1, 0, 0)))
      [] datetime_str = "2025-06-05T00:00:00Z" -> Some(Aware(At(1, 0, 0), 0))
      [] datetime_str = "9999-12-31T23:30:00" -> Some(Naive(At(MaxDay, 23, 30)))
      [] OTHER -> None

\* Mutant of ApplyDefaultTime: a given default_time replaces any clock time.
AlwaysDefaultTime(dt, default_time) ==
    IF default_time # None
    THEN [dt EXCEPT !.w = DateOf(dt) + Val(default_time)]
    ELSE dt

\* The midnight rule of both paths: a datetime at time.min takes default_time
\* (an Optional tick of day) when one is given, keeping its date and zone.
ApplyDefaultTime(dt, default_time) ==
    IF TimeOf(dt) = time_min /\ default_time # None
    THEN [dt EXCEPT !.w = DateOf(dt) + Val(default_time)]
    ELSE dt

\* parse_datetime_for_api(datetime_str, default_time): Optional ISO string.
parse_datetime_for_api(datetime_str, default_time) ==
    LET key == normalized(datetime_str) IN
    IF key \in DOMAIN relative_date_handlers
    THEN Some(isoformat(ApplyDefaultTime(relative_date_handlers[key], default_time)))
    ELSE LET parsed == dateutil_parse(datetime_str) IN
         IF parsed = None THEN None
         ELSE LET dt_parsed == IF Val(parsed).aware THEN Val(parsed)
                               ELSE Aware(Val(parsed).w, local_tz)
              IN Some(isoformat(ApplyDefaultTime(dt_parsed, default_time)))

---------------------------------------------------------------------------
\* The collaborator: what a CalendarService call can answer.

\* An HttpError carries the HTTP status; its reason is error.resp.reason.
HttpStatuses == {404, 500}
reason(status) == IF status = 404 THEN "Not Found" ELSE "Internal Server Error"

Ok == [type |-> "ok", status |-> 200]
HttpError(status) == [type |-> "HttpError", status |-> status]
OtherException == [type |-> "Exception", status |-> 0]
Failures == {HttpError(st) : st \in HttpStatuses} \cup {OtherException}
Outcomes == {Ok} \cup Failures

\* A start or end of an event resource: {'dateTime': ...} or {'date': ...}.
TimedField(iso) == [dateTime |-> Some(iso), date |-> None]
AllDayField(d) == [dateTime |-> None, date |-> Some(IsoDate(d))]
\* field.get('dateTime', field.get('date'))
StartOrDate(field) == IF field.dateTime # None THEN Val(field.dateTime) ELSE Val(field.date)

\* The event resources events().get may return for an existing event.
StoredEvent(summary, start, end) ==
    [summary |-> summary, start |-> start, end |-> end,
     htmlLink |-> "https://calendar.example/evt"]
StoredEvents ==
    { StoredEvent("Review",
          TimedField(IsoDateTime(Aware(At(1, 10, 0), local_tz))),
          TimedField(IsoDateTime(Aware(At(1, 11, 0), local_tz)))),
      StoredEvent("Sync",
          TimedField(IsoDateTime(Aware(At(1, 12, 0), 0))),
          TimedField(IsoDateTime(Aware(At(1, 12, 45), 0)))),
      StoredEvent("Holiday", AllDayField(1), AllDayField(2)),
      StoredEvent("Reminder",
          TimedField(IsoDateTime(Aware(At(1, 14, 0), local_tz))),
          TimedField(IsoDateTime(Aware(At(1, 14, 0), local_tz)))) }

\* A request body: the keys of the dict, None for a key that is not set (in
\* insert's body location and description may also be set to None).
EmptyBody ==
    [summary |-> None, description |-> None, location |-> None,
     start |-> None, end |-> None, reminders |-> None]
\* Mutant of IsEmptyBody: the empty-body check is gone.
NeverEmptyBody(body) == FALSE

\* `not update_body`: a dict is falsy only when it has no key.
IsEmptyBody(body) == body = EmptyBody

\* One CalendarService call: the operation, the event id, the body, the
\* sendUpdates option ("" when the call has none) and the answer.
Call(op, eventId, body, sendUpdates, outcome) ==
    [op |-> op, eventId |-> eventId, body |-> body, sendUpdates |-> sendUpdates,
     outcome |-> outcome]

\* The strings the handlers return, as the source's f-strings.
ConnectFailedCreate == "Failed to connect to Google Calendar service. Please check authentication and client_secret.json."
ConnectFailed == "Failed to connect to Google Calendar service."
BadStartCreate == "Could not understand the start time: '{start_time_str}'. Please provide a clearer date and time"
BadEndCreate == "Could not understand the end time: '{end_time_str}'."
DurationNotPositive == "Event duration must be positive."
EndNotAfterStartCreate == "The event's end time ({end_iso}) must be after its start time ({start_iso})."
Created == "Event '{summary}' created successfully! View it here: {event_url}"
BadNewStart == "Could not parse new_start_time_str: '{new_start_time_str}'"
BadNewEnd == "Could not parse new_end_time_str: '{new_end_time_str}'"
NewDurationNotPositive == "New duration must be positive."
EndNotAfterNewStart == "The event's new end time ({new_end_iso}) must be after its new start time ({new_start_iso})."
EndNotAfterKeptStart == "The event's new end time ({new_end_iso}) must be after its start time ({start_iso})."
NotFoundUpdate == "Event with ID '{event_id}' not found."
NoChanges == "No changes specified for the event. Please provide fields to update."
Updated == "Event '{summary}' updated successfully. View it here: {htmlLink}"
Cancelled == "Event with ID '{event_id}' cancelled successfully."
NotFoundCancel == "Event with ID '{event_id}' not found. Cannot cancel."
BadTimeMin == "Could not parse time_min_str. Please provide a valid start date/time."
NoEvents == "No events found matching your criteria."
FoundEventsMore == "Found events: ... Note: There may be more events than shown."
FoundEvents == "Found events: ..."
ApiError(doing) == "Google Calendar API error while " \o doing \o ": {reason}. Details: {content}"
Unexpected(doing) == "An unexpected error occurred while " \o doing \o ": {e}"

\* A returned message: the f-string of the source and what it interpolates.
Msg(text, strs, isos) == [text |-> text, strs |-> strs, isos |-> isos]
\* What a handler run yields: the string it returns and the calls it made.
Ran(result, made) == [result |-> result, calls |-> made, raised |-> FALSE]
\* A handler left by an exception that no except clause of it catches.
Propagated(made) == [result |-> None, calls |-> made, raised |-> TRUE]

\* The except clauses shared by the handlers: the message of a failed call.
ApiErrorMsg(doing, outcome) ==
    IF outcome.type = "HttpError"
    THEN Msg(ApiError(doing), <<reason(outcome.status)>>, << >>)
    ELSE Msg(Unexpected(doing), << >>, << >>)

---------------------------------------------------------------------------
\* create_event

\* Mutant of EndNotAfterStart: the check lets an end at the very start through.
EndBeforeStart(end_dt, start_dt) == Instant(end_dt) < Instant(start_dt)

\* end_dt <= start_dt, the ordering check of create_event and change_event.
EndNotAfterStart(end_dt, start_dt) == DtLeq(end_dt, start_dt)

\* What lines 111-123 yield: ret is the Optional message of an early return,
\* end_iso the Optional ISO string of the end, raised whether the addition of
\* lines 119 and 122, which no try block encloses, raised OverflowError.
EarlyReturn(msg) == [ret |-> Some(msg), end_iso |-> None, raised |-> FALSE]
GivenEnd(end_iso) == [ret |-> None, end_iso |-> end_iso, raised |-> FALSE]
\* Lines 119-120 and 122-123: (start_dt + timedelta(...)).isoformat().
EndAfter(start_dt, delta) ==
    IF Overflows(start_dt, delta)
    THEN [ret |-> None, end_iso |-> None, raised |-> TRUE]
    ELSE GivenEnd(Some(isoformat(DtAdd(start_dt, delta))))

\* Mutant of CreateEnd: the duration is looked at before the end string.
DurationFirstEnd(details, start_dt) ==
    IF TruthyInt(details.duration_minutes)
    THEN IF Val(details.duration_minutes) <= 0
         THEN EarlyReturn(Msg(DurationNotPositive, << >>, << >>))
         ELSE EndAfter(start_dt, timedelta(Val(details.duration_minutes)))
    ELSE IF TruthyStr(details.end_time_str)
    THEN LET end_iso == parse_datetime_for_api(Val(details.end_time_str), None) IN
         IF end_iso = None
         THEN EarlyReturn(Msg(BadEndCreate, <<Val(details.end_time_str)>>, << >>))
         ELSE GivenEnd(end_iso)
    ELSE EndAfter(start_dt, timedelta(DefaultDurationMinutes))

\* Lines 111-123: the end of a new event, or the message of an early return.
CreateEnd(details, start_dt) ==
    IF TruthyStr(details.end_time_str)
    THEN LET end_iso == parse_datetime_for_api(Val(details.end_time_str), None) IN
         IF end_iso = None
         THEN EarlyReturn(Msg(BadEndCreate,
                              <<Val(details.end_time_str)>>, << >>))
         ELSE GivenEnd(end_iso)
    ELSE IF TruthyInt(details.duration_minutes)
    THEN IF Val(details.duration_minutes) <= 0
         THEN EarlyReturn(Msg(DurationNotPositive, << >>, << >>))
         ELSE EndAfter(start_dt, timedelta(Val(details.duration_minutes)))
    ELSE EndAfter(start_dt, timedelta(DefaultDurationMinutes))

create_event(details, service, outcome) ==
    IF ~service
    THEN Ran(Msg(ConnectFailedCreate,
                 << >>, << >>), << >>)
    ELSE LET start_iso == parse_datetime_for_api(details.start_time_str, None) IN
    IF start_iso = None
    THEN Ran(Msg(BadStartCreate,
                 <<details.start_time_str>>, << >>), << >>)
    ELSE LET start_dt == isoparse(Val(start_iso))
             e == CreateEnd(details, start_dt) IN
    IF e.raised THEN Propagated(<< >>)
    ELSE IF e.ret # None THEN Ran(Val(e.ret), << >>)
    ELSE LET end_dt == isoparse(Val(e.end_iso)) IN
    IF EndNotAfterStart(end_dt, start_dt)
    THEN Ran(Msg(EndNotAfterStartCreate,
                 << >>, <<Val(e.end_iso), Val(start_iso)>>), << >>)
    ELSE LET event_body == [summary |-> Some(details.summary),
                            location |-> details.location,
                            description |-> details.description,
                            start |-> Some(TimedField(Val(start_iso))),
                            end |-> Some(TimedField(Val(e.end_iso))),
                            reminders |-> Some("useDefault")]
             made == <<Call("insert", "", event_body, "", outcome)>> IN
    IF outcome = Ok
    THEN Ran(Msg(Created,
                 <<details.summary>>, << >>), made)
    ELSE Ran(ApiErrorMsg("creating event", outcome), made)

---------------------------------------------------------------------------
\* change_event

\* Mutant of TextFields: each field is put in the body only when it is truthy,
\* so that an empty string is dropped.
TruthyTextFields(details) ==
    [EmptyBody EXCEPT
       !.summary = IF TruthyStr(details.new_summary) THEN details.new_summary ELSE None,
       !.description = IF TruthyStr(details.new_description)
                       THEN details.new_description ELSE None,
       !.location = IF TruthyStr(details.new_location) THEN details.new_location ELSE None]

\* Lines 241-248: the three text fields, each put in the body when it
\* `is not None` (an empty string is put as it is).
TextFields(details) ==
    [EmptyBody EXCEPT !.summary = details.new_summary,
                      !.description = details.new_description,
                      !.location = details.new_location]

\* Mutant of PreservedEnd: the moved event gets the default length.
DefaultLengthEnd(new_start_dt, current_start_dt, current_end_dt) ==
    DtAdd(new_start_dt, timedelta(DefaultDurationMinutes))

\* Lines 272-273: the end that keeps the event's length under a moved start.
PreservedEnd(new_start_dt, current_start_dt, current_end_dt) ==
    DtAdd(new_start_dt, DtSub(current_end_dt, current_start_dt))

\* Mutant of StartForCalc: the start is taken from the clock.
StartFromNow(current_start_dt) == now_local

\* Line 282: the start the end-only branch computes with and sends.
StartForCalc(current_start_dt) == current_start_dt

\* What the timing code yields: ret is the Optional message of an early
\* return (or of the exception handler), start and end the Optional ISO
\* strings put in update_body.
Timing(ret, start, end) == [ret |-> ret, start |-> start, end |-> end]
NoTiming == Timing(None, None, None)
Returned(msg) == Timing(Some(msg), None, None)
\* A TypeError raised inside the try block, caught by `except Exception`.
Raised == Returned(ApiErrorMsg("updating event", OtherException))

\* Lines 256-279: a new start is given.
MovedStartTiming(details, current_start_dt, current_end_dt) ==
    LET new_start_iso == parse_datetime_for_api(Val(details.new_start_time_str), None) IN
    IF new_start_iso = None
    THEN Returned(Msg(BadNewStart,
                      <<Val(details.new_start_time_str)>>, << >>))
    ELSE LET new_start_dt == isoparse(Val(new_start_iso))
             new_end ==
               IF TruthyStr(details.new_end_time_str)
               THEN LET iso == parse_datetime_for_api(Val(details.new_end_time_str), None) IN
                    IF iso = None
                    THEN Returned(Msg(BadNewEnd,
                                      <<Val(details.new_end_time_str)>>, << >>))
                    ELSE Timing(None, None, iso)
               ELSE IF TruthyInt(details.new_duration_minutes)
               THEN IF Val(details.new_duration_minutes) <= 0
                    THEN Returned(Msg(NewDurationNotPositive, << >>, << >>))
                    ELSE Timing(None, None, Some(isoformat(DtAdd(new_start_dt,
                                    timedelta(Val(details.new_duration_minutes))))))
               ELSE IF ~Comparable(current_end_dt, current_start_dt)
               THEN Raised
               ELSE Timing(None, None, Some(isoformat(
                        PreservedEnd(new_start_dt, current_start_dt, current_end_dt))))
         IN
         IF new_end.ret # None THEN new_end
         ELSE IF EndNotAfterStart(isoparse(Val(new_end.end)), new_start_dt)
         THEN Returned(Msg(EndNotAfterNewStart,
                           << >>, <<Val(new_end.end), Val(new_start_iso)>>))
         ELSE Timing(None, new_start_iso, new_end.end)

\* Lines 281-297: no new start, but a new end or a new duration.
KeptStartTiming(details, current_start_dt) ==
    LET new_start_dt_for_calc == StartForCalc(current_start_dt)
        start_iso == isoformat(new_start_dt_for_calc)
        new_end ==
          IF TruthyStr(details.new_end_time_str)
          THEN LET iso == parse_datetime_for_api(Val(details.new_end_time_str), None) IN
               IF iso = None
               THEN Returned(Msg(BadNewEnd,
                                 <<Val(details.new_end_time_str)>>, << >>))
               ELSE Timing(None, None, iso)
          ELSE IF TruthyInt(details.new_duration_minutes)
          THEN IF Val(details.new_duration_minutes) <= 0
               THEN Returned(Msg(NewDurationNotPositive, << >>, << >>))
               ELSE Timing(None, None, Some(isoformat(DtAdd(new_start_dt_for_calc,
                               timedelta(Val(details.new_duration_minutes))))))
          ELSE NoTiming
    IN
    IF new_end.ret # None THEN new_end
    ELSE IF new_end.end = None THEN Timing(None, Some(start_iso), None)
    ELSE IF ~Comparable(isoparse(Val(new_end.end)), new_start_dt_for_calc)
    THEN Raised
    ELSE IF EndNotAfterStart(isoparse(Val(new_end.end)), new_start_dt_for_calc)
    THEN Returned(Msg(EndNotAfterKeptStart,
                      << >>, <<Val(new_end.end), start_iso>>))
    ELSE Timing(None, Some(start_iso), new_end.end)

\* Lines 250-297: which of the two timing branches runs, if any.
UpdateTiming(details, event_to_update) ==
    LET current_start_dt == isoparse(StartOrDate(event_to_update.start))
        current_end_dt == isoparse(StartOrDate(event_to_update.end)) IN
    IF TruthyStr(details.new_start_time_str)
    THEN MovedStartTiming(details, current_start_dt, current_end_dt)
    ELSE IF TruthyStr(details.new_end_time_str) \/ TruthyInt(details.new_duration_minutes)
    THEN KeptStartTiming(details, current_start_dt)
    ELSE NoTiming

\* Mutant of UpdateBody: a start that was only fetched, not given, is left
\* out of the body.
KeptStartNotSent(details, event_to_update) ==
    LET t == UpdateTiming(details, event_to_update) IN
    [ret |-> t.ret,
     body |-> [TextFields(details) EXCEPT
                 !.start = IF t.start = None \/ ~TruthyStr(details.new_start_time_str)
                           THEN None ELSE Some(TimedField(Val(t.start))),
                 !.end = IF t.end = None THEN None ELSE Some(TimedField(Val(t.end)))]]

\* Lines 241-297: the body change_event builds, or the message it returns early.
UpdateBody(details, event_to_update) ==
    LET t == UpdateTiming(details, event_to_update) IN
    [ret |-> t.ret,
     body |-> [TextFields(details) EXCEPT
                 !.start = IF t.start = None THEN None ELSE Some(TimedField(Val(t.start))),
                 !.end = IF t.end = None THEN None ELSE Some(TimedField(Val(t.end)))]]

\* Mutant of change_event_get: a failed events().get is tried a second time.
change_event_get_again(details, service, outcome, response) ==
    IF ~service
    THEN Ran(Some(Msg(ConnectFailed, << >>, << >>)), << >>)
    ELSE LET made == <<Call("get", details.event_id, EmptyBody, "", outcome)>> IN
    IF outcome # Ok THEN Ran(Some(ApiErrorMsg("updating event", outcome)), made \o made)
    ELSE IF response = None
    THEN Ran(Some(Msg(NotFoundUpdate, <<details.event_id>>, << >>)), made)
    ELSE Ran(None, made)

\* Lines 232-239: create_service and events().get.  response is the Optional
\* event resource of a call that did not raise.
change_event_get(details, service, outcome, response) ==
    IF ~service
    THEN Ran(Some(Msg(ConnectFailed, << >>, << >>)), << >>)
    ELSE LET made == <<Call("get", details.event_id, EmptyBody, "", outcome)>> IN
    IF outcome # Ok THEN Ran(Some(ApiErrorMsg("updating event", outcome)), made)
    ELSE IF response = None
    THEN Ran(Some(Msg(NotFoundUpdate, <<details.event_id>>, << >>)), made)
    ELSE Ran(None, made)

\* Mutant of PatchWith: the patch is sent for event evt1 whatever event_id is.
PatchFirstEvent(details, u, outcome) ==
    IF u.ret # None THEN Ran(Val(u.ret), << >>)
    ELSE IF IsEmptyBody(u.body)
    THEN Ran(Msg(NoChanges, << >>, << >>), << >>)
    ELSE LET made == <<Call("patch", "evt1", u.body, "all", outcome)>> IN
    IF outcome = Ok
    THEN Ran(Msg(Updated, << >>, << >>), made)
    ELSE Ran(ApiErrorMsg("updating event", outcome), made)

\* Lines 300-309: the empty-body check, events().patch and the return, for
\* the body u that lines 241-297 built.
PatchWith(details, u, outcome) ==
    IF u.ret # None THEN Ran(Val(u.ret), << >>)
    ELSE IF IsEmptyBody(u.body)
    THEN Ran(Msg(NoChanges,
                 << >>, << >>), << >>)
    ELSE LET made == <<Call("patch", details.event_id, u.body, "all", outcome)>> IN
    IF outcome = Ok
    THEN Ran(Msg(Updated,
                 << >>, << >>), made)
    ELSE Ran(ApiErrorMsg("updating event", outcome), made)

\* Lines 241-309: the rest of change_event, once the event is fetched (the
\* body is bound through a singleton set, so that it is computed once).
change_event_patch(details, event_to_update, outcome) ==
    CHOOSE ran \in {PatchWith(details, u, outcome) :
                       u \in {UpdateBody(details, event_to_update)}} : TRUE

---------------------------------------------------------------------------
\* cancel_event

\* Mutant of NotFoundError: no status is told apart.
NoStatusCheck(outcome) == FALSE

\* Line 335: error.resp.status == 404.
NotFoundError(outcome) == outcome.type = "HttpError" /\ outcome.status = 404


cancel_event(details, service, outcome) ==
    IF ~service
    THEN Ran(Msg(ConnectFailed, << >>, << >>), << >>)
    ELSE LET send_updates_option == IF details.send_notifications THEN "all" ELSE "none"
             made == <<Call("delete", details.event_id, EmptyBody,
                            send_updates_option, outcome)>> IN
    IF outcome = Ok
    THEN Ran(Msg(Cancelled,
                 <<details.event_id>>, << >>), made)
    ELSE IF NotFoundError(outcome)
    THEN Ran(Msg(NotFoundCancel,
                 <<details.event_id>>, << >>), made)
    ELSE Ran(ApiErrorMsg("canceling event", outcome), made)

---------------------------------------------------------------------------
\* list_event

\* What events().list may answer: the items and whether a nextPageToken came.
Listing(items, more) == [items |-> items, nextPageToken |-> more]
Listings ==
    { Listing(<< >>, FALSE),
      Listing(<<StoredEvent("Review",
                   TimedField(IsoDateTime(Aware(At(1, 10, 0), local_tz))),
                   TimedField(IsoDateTime(Aware(At(1, 11, 0), local_tz))))>>, FALSE),
      Listing(<<StoredEvent("Holiday", AllDayField(1), AllDayField(2))>>, TRUE) }

\* Lines 196-202: the line of one item; midnight starts print as all-day.
formatted_start(item) ==
    IF TimeOf(isoparse(StartOrDate(item.start))) # time_min
    THEN "%Y-%m-%d %I:%M %p %Z" ELSE "%Y-%m-%d (All-day)"
RECURSIVE event_lines(_)
event_lines(items) ==
    IF items = << >> THEN << >>
    ELSE <<Head(items).summary, formatted_start(Head(items))>> \o event_lines(Tail(items))

\* Line 185: the cap sent to events().list, min(details.max_results, 250).
PassedMaxResults(max_results) == max_results
CappedMaxResults(max_results) ==
    IF max_results < MaxResultsCeiling THEN max_results ELSE MaxResultsCeiling

list_event(details, service, outcome, response) ==
    IF ~service
    THEN Ran(Msg(ConnectFailed, << >>, << >>), << >>)
    ELSE LET time_min_iso == IF TruthyStr(details.time_min_str)
                             THEN parse_datetime_for_api(Val(details.time_min_str), Some(time_min))
                             ELSE Some(isoformat(now_local))
             time_max_iso == IF TruthyStr(details.time_max_str)
                             THEN parse_datetime_for_api(Val(details.time_max_str), Some(time_max))
                             ELSE None IN
    IF time_min_iso = None
    THEN Ran(Msg(BadTimeMin,
                 << >>, << >>), << >>)
    ELSE LET request == [timeMin |-> time_min_iso, timeMax |-> time_max_iso,
                         q |-> details.search_query,
                         maxResults |-> CappedMaxResults(details.max_results)]
             made == <<Call("list", "", request, "", outcome)>> IN
    IF outcome # Ok THEN Ran(ApiErrorMsg("listing events", outcome), made)
    ELSE IF response.items = << >>
    THEN Ran(Msg(NoEvents, << >>, << >>), made)
    ELSE Ran(Msg(IF response.nextPageToken
                 THEN FoundEventsMore
                 ELSE FoundEvents,
                 event_lines(response.items), << >>), made)

---------------------------------------------------------------------------
\* The inputs the handlers are run on.

\* The largest duration tried is 30 * MaxDurationSteps minutes.
MaxDurationSteps == 3
Durations == {None, Some(0 - 5), Some(0)} \cup {Some(30 * k) : k \in 1..MaxDurationSteps}
OptTexts == {None, Some(""), Some("Room 4")}
Summaries == {"", "Standup"}
StartStrings == {"", "not a date", "2025-06-05T14:00:00", "Tomorrow", "now"}
EndStrings == {"", "not a date", "2025-06-05T14:00:00", "2025-06-05T15:00:00",
               "2025-06-05T13:00:00Z", "today"}
BoundStrings == {"", "not a date", "2025-06-05", "end_of_today", "today",
                 "2025-06-05T14:00:00", "2025-06-05T00:00:00Z"}
\* A start in the last half hour of datetime.max's day.
FarStartStrings == {"9999-12-31T23:30:00"}
OptOf(S) == {None} \cup {Some(x) : x \in S}
EventIds == {"evt1"}
MaxResultsInputs == {1, 10, MaxResultsCeiling, MaxResultsCeiling + 1, 1000}

CalendarEventInputs ==
    [summary : Summaries, start_time_str : StartStrings \cup FarStartStrings,
     duration_minutes : Durations,
     end_time_str : OptOf(EndStrings), description : OptTexts, location : OptTexts]
ListEventsInputs ==
    [time_min_str : OptOf(BoundStrings), time_max_str : OptOf(BoundStrings),
     search_query : {None, Some("dentist")}, max_results : MaxResultsInputs]
UpdateEventInputs ==
    [event_id : EventIds, new_summary : OptTexts,
     new_start_time_str : OptOf(StartStrings \ {"now"}),
     new_end_time_str : OptOf(EndStrings), new_duration_minutes : Durations,
     new_description : OptTexts, new_location : OptTexts]
CancelEventInputs == [event_id : EventIds, send_notifications : BOOLEAN]

---------------------------------------------------------------------------
\* The calendar behind the CalendarService, for invocations that overlap.

CalendarIds == {"evt1", "evt2"}
\* The calendar before any invocation: event id -> Optional event resource.
InitialCalendar ==
    [id \in CalendarIds |->
        Some(CHOOSE e \in StoredEvents :
                e.summary = IF id = "evt1" THEN "Review" ELSE "Sync")]

\* What can go wrong in one invocation: nothing, create_service returning
\* None, the read (events().get) raising, the write (patch or delete) raising.
Faults == {"none", "service", "read", "write"}
\* The answer of a call for event id on calendar cal: a provider fault, 404
\* for an event that is not there, or success.
Answer(cal, id, faulty) ==
    IF faulty THEN HttpError(500)
    ELSE IF cal[id] = None THEN HttpError(404)
    ELSE Ok

\* events().patch: the keys of the body replace those of the resource.
Patched(event, body) ==
    [event EXCEPT !.summary = IF body.summary # None THEN Val(body.summary) ELSE @,
                  !.start = IF body.start # None THEN Val(body.start) ELSE @,
                  !.end = IF body.end # None THEN Val(body.end) ELSE @]
\* The calendar after the calls `made`: a patch or delete that succeeded
\* changes the event it names, any other call changes nothing.
RECURSIVE Applied(_, _)
Applied(cal, made) ==
    IF made = << >> THEN cal
    ELSE LET c == Head(made)
             hit == c.outcome = Ok /\ c.eventId \in DOMAIN cal /\ cal[c.eventId] # None
             after == IF hit /\ c.op = "patch"
                      THEN [cal EXCEPT ![c.eventId] = Some(Patched(Val(@), c.body))]
                      ELSE IF hit /\ c.op = "delete"
                      THEN [cal EXCEPT ![c.eventId] = None]
                      ELSE cal
         IN Applied(after, Tail(made))

\* Another client of the calendar moves an event to 16:00-17:00 local.
ExternalBody ==
    [EmptyBody EXCEPT
       !.start = Some(TimedField(IsoDateTime(Aware(At(1, 16, 0), local_tz)))),
       !.end = Some(TimedField(IsoDateTime(Aware(At(1, 17, 0), local_tz))))]

\* The two invocations that overlap, and the inputs they are run on.
Handlers == {"a", "b"}
SharedUpdateInputs ==
    [event_id : CalendarIds, new_summary : {None, Some("Room 4")},
     new_start_time_str : {None, Some("2025-06-05T14:00:00")},
     new_end_time_str : {None}, new_duration_minutes : {None, Some(30)},
     new_description : {None}, new_location : {None}]
SharedCancelInputs == [event_id : CalendarIds, send_notifications : {TRUE}]

\* One entry of the order in which calls reached the calendar.
Mark(by, op, eventId) == [by |-> by, op |-> op, eventId |-> eventId]
Marks(by, made) == [i \in 1..Len(made) |-> Mark(by, made[i].op, made[i].eventId)]
\* At most MaxExternalEdits modifications by other clients are followed.
MaxExternalEdits == 1

\* A handler's locals: where it is, its input, the fault it will meet, the
\* event it fetched, the calls it made and the message it returned.
Invocation(at, name, d, fault, fetched, made, msg) ==
    [pc |-> at, tool |-> name, details |-> d, fault |-> fault,
     event_to_update |-> fetched, calls |-> made, result |-> msg]
NotInvoked == Invocation("idle", "", [event_id |-> ""], "none", None, << >>, None)

\* The handler of invocation v run alone on calendar cal, from its first
\* line to its return: the message it returns and the calendar it leaves.
RunAlone(cal, v) ==
    LET id == v.details.event_id IN
    IF v.tool = "cancel_event"
    THEN LET ran == cancel_event(v.details, v.fault # "service",
                                 Answer(cal, id, v.fault = "write")) IN
         [result |-> Some(ran.result), calendar |-> Applied(cal, ran.calls)]
    ELSE LET got == change_event_get(v.details, v.fault # "service",
                                     Answer(cal, id, v.fault = "read"), cal[id]) IN
         IF got.result # None
         THEN [result |-> got.result, calendar |-> cal]
         ELSE LET ran == change_event_patch(v.details, Val(cal[id]),
                                            Answer(cal, id, v.fault = "write")) IN
              [result |-> Some(ran.result), calendar |-> Applied(cal, ran.calls)]

---------------------------------------------------------------------------
\* The /chat endpoint and the history it keeps.

\* agent.SESSION_CHAT_ID, the id of the process session.
SESSION_CHAT_ID == "session-1"
\* ChatRequest.session_id: Optional[str].
SessionIds == {None, Some(""), Some(SESSION_CHAT_ID), Some("session-2")}
\* The requests followed: 1..MaxRequests, each naming its own turn.
MaxRequests == 3
Requests == 1..MaxRequests

\* agent_output.all_messages(): the message history the run was given (an
\* Optional sequence of turns), followed by the turn of this run.
all_messages(message_history, turn) ==
    (IF message_history = None THEN << >> ELSE Val(message_history)) \o <<turn>>

\* A request's locals: where it is, its session id, the history its run got.
ChatLocals(at, session_id, message_history) ==
    [pc |-> at, session_id |-> session_id, message_history |-> message_history]
NotReceived == ChatLocals("new", None, None)
\* Lines 70-72: a truthy session id other than SESSION_CHAT_ID starts afresh.
StartsAfresh(session_id) == TruthyStr(session_id) /\ Val(session_id) # SESSION_CHAT_ID

---------------------------------------------------------------------------
\* The state machine: one handler invocation at a time.

VARIABLES
    pc,                \* "idle", "fetched" (change_event between get and patch),
                       \* "done", "raised" (the handler was left by an exception)
    tool,              \* the handler running or last run
    details,           \* its input model
    event_to_update,   \* Optional: the event change_event fetched
    calls,             \* the CalendarService calls of this invocation, in order
    result,            \* Optional: the message the handler returned
    calendar,          \* the shared calendar: event id -> Optional resource
    running,           \* the locals of each of the two overlapping handlers
    trace,             \* the order in which calls reached the shared calendar
    chat_history,      \* api.chat_history: Optional sequence of turns
    requests           \* the locals of each /chat request

vars == <<pc, tool, details, event_to_update, calls, result,
          calendar, running, trace, chat_history, requests>>
handlerVars == <<pc, tool, details, event_to_update, calls, result>>
sharedVars == <<calendar, running, trace>>
chatVars == <<chat_history, requests>>

NoDetails == [event_id |-> ""]

Init ==
    /\ pc = "idle"
    /\ tool = ""
    /\ details = NoDetails
    /\ event_to_update = None
    /\ calls = << >>
    /\ result = None
    /\ calendar = InitialCalendar
    /\ running = [p \in Handlers |-> NotInvoked]
    /\ trace = << >>
    /\ chat_history = None
    /\ requests = [r \in Requests |-> NotReceived]

\* A handler may be invoked when none is running.
Free == pc = "idle"

Finish(name, d, ran) ==
    /\ pc' = IF ran.raised THEN "raised" ELSE "done"
    /\ tool' = name
    /\ details' = d
    /\ calls' = ran.calls
    /\ result' = IF ran.raised THEN None ELSE Some(ran.result)
    /\ UNCHANGED <<sharedVars, chatVars>>

CreateEvent ==
    /\ Free
    /\ \E d \in CalendarEventInputs, service \in BOOLEAN, outcome \in Outcomes :
          Finish("create_event", d, create_event(d, service, outcome))
    /\ event_to_update' = None

ListEvent ==
    /\ Free
    /\ \E d \in ListEventsInputs, service \in BOOLEAN, outcome \in Outcomes,
          response \in Listings :
          Finish("list_event", d, list_event(d, service, outcome, response))
    /\ event_to_update' = None

CancelEvent ==
    /\ Free
    /\ \E d \in CancelEventInputs, service \in BOOLEAN, outcome \in Outcomes :
          Finish("cancel_event", d, cancel_event(d, service, outcome))
    /\ event_to_update' = None

\* change_event up to the answer of events().get.
ChangeEventGet ==
    /\ Free
    /\ \E d \in UpdateEventInputs, service \in BOOLEAN, outcome \in Outcomes,
          response \in OptOf(StoredEvents) :
          LET ran == change_event_get(d, service, outcome, response) IN
          /\ tool' = "change_event"
          /\ details' = d
          /\ calls' = ran.calls
          /\ result' = ran.result
          /\ pc' = IF ran.result = None THEN "fetched" ELSE "done"
          /\ event_to_update' = IF ran.result = None THEN response ELSE None
    /\ UNCHANGED <<sharedVars, chatVars>>

\* change_event from the fetched event to its return.
ChangeEventPatch ==
    /\ pc = "fetched"
    /\ \E outcome \in Outcomes :
          LET ran == change_event_patch(details, Val(event_to_update), outcome) IN
          /\ calls' = calls \o ran.calls
          /\ result' = Some(ran.result)
    /\ pc' = "done"
    /\ UNCHANGED <<tool, details, event_to_update, sharedVars, chatVars>>

\* The caller takes the returned message, or catches the exception and
\* answers with status 500; the next invocation starts afresh (the handlers
\* keep nothing between invocations).
Return ==
    /\ pc \in {"done", "raised"}
    /\ pc' = "idle"
    /\ tool' = ""
    /\ details' = NoDetails
    /\ event_to_update' = None
    /\ calls' = << >>
    /\ result' = None
    /\ UNCHANGED <<sharedVars, chatVars>>

Next ==
    \/ CreateEvent
    \/ ListEvent
    \/ CancelEvent
    \/ ChangeEventGet
    \/ ChangeEventPatch
    \/ Return

Spec == Init /\ [][Next]_vars

---------------------------------------------------------------------------
\* Two handlers on one calendar: each runs one invocation, their calls reach
\* the calendar in any order, and another client may modify an event.

\* The locals of handler p after the step that made the calls of ran.
Step(p, v) == running' = [running EXCEPT ![p] = v]
Reach(p, made) ==
    /\ calendar' = Applied(calendar, made)
    /\ trace' = trace \o Marks(p, made)

\* change_event up to the answer of events().get.
SharedChangeGet(p) ==
    /\ running[p].pc = "idle"
    /\ \E d \in SharedUpdateInputs, fault \in Faults :
          LET ran == change_event_get(d, fault # "service",
                                      Answer(calendar, d.event_id, fault = "read"),
                                      calendar[d.event_id]) IN
          /\ Step(p, Invocation(IF ran.result = None THEN "fetched" ELSE "done",
                                "change_event", d, fault,
                                IF ran.result = None THEN calendar[d.event_id] ELSE None,
                                ran.calls, ran.result))
          /\ Reach(p, ran.calls)
    /\ UNCHANGED <<handlerVars, chatVars>>

\* change_event from the fetched event to its return.
SharedChangePatch(p) ==
    /\ running[p].pc = "fetched"
    /\ LET v == running[p]
           ran == change_event_patch(v.details, Val(v.event_to_update),
                                     Answer(calendar, v.details.event_id,
                                            v.fault = "write")) IN
       /\ Step(p, [v EXCEPT !.pc = "done", !.calls = @ \o ran.calls,
                            !.result = Some(ran.result)])
       /\ Reach(p, ran.calls)
    /\ UNCHANGED <<handlerVars, chatVars>>

SharedCancel(p) ==
    /\ running[p].pc = "idle"
    /\ \E d \in SharedCancelInputs, fault \in Faults \ {"read"} :
          LET ran == cancel_event(d, fault # "service",
                                  Answer(calendar, d.event_id, fault = "write")) IN
          /\ Step(p, Invocation("done", "cancel_event", d, fault, None,
                                ran.calls, Some(ran.result)))
          /\ Reach(p, ran.calls)
    /\ UNCHANGED <<handlerVars, chatVars>>

\* Another client patches an event of the calendar.
ExternalEdits == Cardinality({i \in DOMAIN trace : trace[i].by = "external"})
ExternalModify ==
    /\ ExternalEdits < MaxExternalEdits
    /\ \E id \in CalendarIds :
          /\ calendar[id] # None
          /\ Reach("external", <<Call("patch", id, ExternalBody, "", Ok)>>)
    /\ UNCHANGED <<running, handlerVars, chatVars>>

NextShared ==
    \/ \E p \in Handlers : SharedChangeGet(p)
    \/ \E p \in Handlers : SharedChangePatch(p)
    \/ \E p \in Handlers : SharedCancel(p)
    \/ ExternalModify

SpecShared == Init /\ [][NextShared]_vars

---------------------------------------------------------------------------
\* Requests to /chat: a request is suspended while its agent run is awaited,
\* and other requests run meanwhile.

\* Lines 58-80: the payload parses, the session id is looked at and the agent
\* run is started with the history of this moment.
ChatReceive(r) ==
    /\ requests[r].pc = "new"
    /\ \E session_id \in SessionIds :
          LET history == IF StartsAfresh(session_id) THEN None ELSE chat_history IN
          /\ chat_history' = history
          /\ requests' = [requests EXCEPT ![r] = ChatLocals("running", session_id, history)]
    /\ UNCHANGED <<handlerVars, sharedVars>>

\* Lines 61-66: the payload does not parse; status 422.
ChatInvalid(r) ==
    /\ requests[r].pc = "new"
    /\ requests' = [requests EXCEPT ![r].pc = "rejected"]
    /\ UNCHANGED <<chat_history, handlerVars, sharedVars>>

\* Lines 81-95: the agent run returned; its messages become the history.
ChatAnswer(r) ==
    /\ requests[r].pc = "running"
    /\ chat_history' = Some(all_messages(requests[r].message_history, r))
    /\ requests' = [requests EXCEPT ![r].pc = "answered"]
    /\ UNCHANGED <<handlerVars, sharedVars>>

\* Lines 97-102: the agent run raised; status 500, the history is left.
ChatFail(r) ==
    /\ requests[r].pc = "running"
    /\ requests' = [requests EXCEPT ![r].pc = "failed"]
    /\ UNCHANGED <<chat_history, handlerVars, sharedVars>>

NextChat ==
    \/ \E r \in Requests : ChatReceive(r)
    \/ \E r \in Requests : ChatInvalid(r)
    \/ \E r \in Requests : ChatAnswer(r)
    \/ \E r \in Requests : ChatFail(r)

SpecChat == Init /\ [][NextChat]_vars

---------------------------------------------------------------------------
\* Properties

\* The calls of the invocation with operation op.
CallsOf(op) == {calls[i] : i \in {j \in DOMAIN calls : calls[j].op = op}}
HasCall(op) == CallsOf(op) # {}
\* The calls that write an event.
Writes == CallsOf("insert") \cup CallsOf("patch")
\* The handler t has returned; the message it returned.
HasReturned(t) == pc = "done" /\ tool = t
ResultText == IF result = None THEN "" ELSE Val(result).text
\* The datetime of a start or end that a request body carries.
SentDt(field) == isoparse(Val(Val(field).dateTime))
CarriesTiming(body) == body.start # None \/ body.end # None
\* The fetched range of the event change_event is updating.
FetchedStart == isoparse(StartOrDate(Val(event_to_update).start))
FetchedEnd == isoparse(StartOrDate(Val(event_to_update).end))
\* The start the invocation resolved: the parsed start string, or for an
\* update without one the fetched start.
ResolvedStart ==
    IF tool = "create_event"
    THEN isoparse(Val(parse_datetime_for_api(details.start_time_str, None)))
    ELSE IF TruthyStr(details.new_start_time_str)
    THEN isoparse(Val(parse_datetime_for_api(Val(details.new_start_time_str), None)))
    ELSE FetchedStart
OrderingTexts == {EndNotAfterStartCreate, EndNotAfterNewStart, EndNotAfterKeptStart}

\* C1: every insert or patch that carries timing carries both a start and an
\* end, its end is strictly after its start, and its start is the resolved
\* start (never the end swapped in); a run that returns an ordering error has
\* made no insert and no patch, and the end it names is not after the start.
C1_EndStrictlyAfterStart ==
    /\ \A c \in Writes :
          CarriesTiming(c.body) =>
             /\ c.body.start # None /\ c.body.end # None
             /\ Comparable(SentDt(c.body.start), SentDt(c.body.end))
             /\ Instant(SentDt(c.body.start)) < Instant(SentDt(c.body.end))
             /\ SentDt(c.body.start) = ResolvedStart
    /\ (pc = "done" /\ ResultText \in OrderingTexts) =>
          /\ Writes = {}
          /\ Instant(isoparse(Val(result).isos[1])) <= Instant(isoparse(Val(result).isos[2]))

\* C1 witness: create_event rejected an end at the very instant of its start.
C1_Witness ==
    /\ HasReturned("create_event")
    /\ ResultText = EndNotAfterStartCreate
    /\ Instant(isoparse(Val(result).isos[1])) = Instant(isoparse(Val(result).isos[2]))
    /\ calls = << >>

\* An update that gives no new start but gives an end or a positive duration.
KeepsStart ==
    /\ tool = "change_event"
    /\ event_to_update # None
    /\ ~TruthyStr(details.new_start_time_str)
    /\ TruthyStr(details.new_end_time_str) \/ details.new_duration_minutes # None

\* C2: in an update with no new start and a new end or duration, the timing
\* the patch carries is the fetched start, unmoved, with the resolved explicit
\* end if one is given and otherwise fetched start + duration; the end is after
\* that start, an ordering error names that start, and a duration-only update
\* of a positive duration is sent.
C2_StartAnchored ==
    KeepsStart =>
       /\ \A c \in CallsOf("patch") :
             CarriesTiming(c.body) =>
                /\ c.body.start = Some(TimedField(IsoDateTime(FetchedStart)))
                /\ c.body.end # None
                /\ IF TruthyStr(details.new_end_time_str)
                   THEN Val(c.body.end).dateTime =
                           parse_datetime_for_api(Val(details.new_end_time_str), None)
                   ELSE SentDt(c.body.end).w =
                           FetchedStart.w + Val(details.new_duration_minutes) * TicksPerMinute
                /\ Instant(SentDt(c.body.end)) > Instant(FetchedStart)
       /\ (pc = "done" /\ ResultText = EndNotAfterKeptStart) =>
             isoparse(Val(result).isos[2]) = FetchedStart
       /\ (pc = "done" /\ ~TruthyStr(details.new_end_time_str)
             /\ details.new_duration_minutes # None
             /\ Val(details.new_duration_minutes) > 0) =>
             \E c \in CallsOf("patch") : c.body.start # None

\* C2 witness: a 30-minute duration-only update of the all-day or timed event
\* was patched with the fetched start.
C2_Witness ==
    /\ HasReturned("change_event")
    /\ KeepsStart
    /\ details.new_end_time_str = None
    /\ details.new_duration_minutes = Some(30)
    /\ ResultText = Updated
    /\ \E c \in CallsOf("patch") : SentDt(c.body.start) = FetchedStart

\* An update that gives a new start and neither an end nor a duration.
MovesStartOnly ==
    /\ tool = "change_event"
    /\ event_to_update # None
    /\ TruthyStr(details.new_start_time_str)
    /\ ~TruthyStr(details.new_end_time_str)
    /\ details.new_duration_minutes = None

\* C3: in an update with a new start and neither end nor duration, the patch
\* carries the resolved new start and the end new start + (fetched end -
\* fetched start); it is sent whenever the new start resolves and the fetched
\* event has a positive length.
C3_DurationPreserved ==
    MovesStartOnly =>
       /\ \A c \in CallsOf("patch") :
             /\ c.body.start # None /\ c.body.end # None
             /\ SentDt(c.body.start) = ResolvedStart
             /\ Instant(SentDt(c.body.end)) - Instant(SentDt(c.body.start))
                   = Instant(FetchedEnd) - Instant(FetchedStart)
       /\ (pc = "done"
             /\ parse_datetime_for_api(Val(details.new_start_time_str), None) # None
             /\ Instant(FetchedEnd) > Instant(FetchedStart)) =>
             HasCall("patch")

\* C3 witness: the 45-minute event moved to a new start was patched.
C3_Witness ==
    /\ HasReturned("change_event")
    /\ MovesStartOnly
    /\ Instant(FetchedEnd) - Instant(FetchedStart) = 45 * TicksPerMinute
    /\ \E c \in CallsOf("patch") :
          /\ SentDt(c.body.start) = ResolvedStart
          /\ Instant(SentDt(c.body.end)) = Instant(ResolvedStart) + 45 * TicksPerMinute

\* C4: create_event with a duration that is present and not greater than 0,
\* and no end string, makes no insert and, once the service is connected and
\* the start is understood, returns the duration error.
C4_NonPositiveDurationRejected ==
    (/\ HasReturned("create_event")
     /\ details.end_time_str = None
     /\ details.duration_minutes # None
     /\ Val(details.duration_minutes) <= 0) =>
       /\ ~HasCall("insert")
       /\ ResultText \notin {ConnectFailedCreate, BadStartCreate} =>
             ResultText = DurationNotPositive

\* C5: change_event with a new duration that is present and not greater than
\* 0, and no new end string, makes no patch and, once the event is fetched and
\* any new start is understood, returns the duration error.
C5_NonPositiveNewDurationRejected ==
    (/\ HasReturned("change_event")
     /\ event_to_update # None
     /\ details.new_end_time_str = None
     /\ details.new_duration_minutes # None
     /\ Val(details.new_duration_minutes) <= 0) =>
       /\ ~HasCall("patch")
       /\ ResultText # BadNewStart => ResultText = NewDurationNotPositive

\* C6: create_event with neither end string nor duration inserts, whenever
\* the service is connected and the start is understood, the resolved start
\* with the end 60 minutes after it; with an end string, what is inserted
\* carries that string's resolution as its end whatever the duration is, and
\* an end string that does not resolve is an error whatever the duration is.
C6_DefaultDurationAndEndPriority ==
    HasReturned("create_event") =>
       /\ (~TruthyStr(details.end_time_str) /\ details.duration_minutes = None) =>
             /\ \A c \in CallsOf("insert") :
                   /\ SentDt(c.body.start) = ResolvedStart
                   /\ SentDt(c.body.end) =
                         [ResolvedStart EXCEPT !.w = @ + 60 * TicksPerMinute]
             /\ ResultText \notin {ConnectFailedCreate, BadStartCreate} =>
                   HasCall("insert")
       /\ TruthyStr(details.end_time_str) =>
             /\ \A c \in CallsOf("insert") :
                   Val(c.body.end).dateTime =
                      parse_datetime_for_api(Val(details.end_time_str), None)
             /\ (/\ parse_datetime_for_api(Val(details.end_time_str), None) = None
                 /\ ResultText \notin {ConnectFailedCreate, BadStartCreate}) =>
                   ResultText = BadEndCreate

\* C6 witness: an event created from a start alone, inserted with the end an
\* hour after the start.
C6_Witness ==
    /\ HasReturned("create_event")
    /\ details.end_time_str = None
    /\ details.duration_minutes = None
    /\ ResultText = Created
    /\ \E c \in CallsOf("insert") :
          Instant(SentDt(c.body.end)) = Instant(SentDt(c.body.start)) + 60 * TicksPerMinute

\* An update that gives no field at all.
NothingGiven ==
    /\ tool = "change_event"
    /\ details.new_summary = None
    /\ details.new_description = None
    /\ details.new_location = None
    /\ details.new_start_time_str = None
    /\ details.new_end_time_str = None
    /\ details.new_duration_minutes = None

\* C7: an update that gives no text field and no timing never makes a patch,
\* and once the event is fetched it returns the no-changes message.
C7_NothingToUpdate ==
    NothingGiven =>
       /\ ~HasCall("patch")
       /\ (pc = "done" /\ event_to_update # None) => ResultText = NoChanges

\* C7 witness: the event was fetched and the no-changes message returned.
C7_Witness ==
    /\ HasReturned("change_event")
    /\ NothingGiven
    /\ HasCall("get")
    /\ ResultText = NoChanges

\* An update that gives no timing input.
NoTimingGiven ==
    /\ details.new_start_time_str = None
    /\ details.new_end_time_str = None
    /\ details.new_duration_minutes = None

\* C8: the patch of an update carries each of summary, description and
\* location exactly as given (absent: not in the body; empty: the empty
\* string; non-empty: that value); without timing input it carries no start
\* and no end; and a fetched update without timing input that gives any text
\* field, empty or not, is patched.
C8_ThreeStateFields ==
    tool = "change_event" =>
       /\ \A c \in CallsOf("patch") :
             /\ c.body.summary = details.new_summary
             /\ c.body.description = details.new_description
             /\ c.body.location = details.new_location
             /\ NoTimingGiven => (c.body.start = None /\ c.body.end = None)
       /\ (/\ pc = "done"
           /\ event_to_update # None
           /\ NoTimingGiven
           /\ \/ details.new_summary # None
              \/ details.new_description # None
              \/ details.new_location # None) =>
             HasCall("patch")

\* C8 witness: a patch that clears the summary, leaves the description alone
\* and replaces the location, with no timing.
C8_Witness ==
    /\ HasReturned("change_event")
    /\ NoTimingGiven
    /\ details.new_summary = Some("")
    /\ details.new_description = None
    /\ details.new_location = Some("Room 4")
    /\ \E c \in CallsOf("patch") :
          /\ c.body.summary = Some("") /\ c.body.description = None
          /\ c.body.location = Some("Room 4")
          /\ c.body.start = None /\ c.body.end = None

\* C9: when events().get answers that the event does not exist (HTTP 404),
\* change_event returns its not-found message and makes no patch.
C9_GetNotFoundExplicit ==
    (/\ HasReturned("change_event")
     /\ \E c \in CallsOf("get") : c.outcome = HttpError(404)) =>
       /\ ResultText = NotFoundUpdate
       /\ ~HasCall("patch")

\* C10: cancel_event returns its not-found message exactly when the delete
\* failed with HTTP 404, and for every other failure of the delete one of the
\* two generic error messages, which differ from the not-found message.
C10_CancelNotFoundDistinct ==
    HasReturned("cancel_event") =>
       /\ ResultText = NotFoundCancel <=>
             \E c \in CallsOf("delete") : c.outcome = HttpError(404)
       /\ \A c \in CallsOf("delete") :
             (c.outcome \in Failures /\ c.outcome # HttpError(404)) =>
                ResultText \in {ApiError("canceling event"), Unexpected("canceling event")}
       /\ NotFoundCancel \notin {ApiError("canceling event"), Unexpected("canceling event")}

\* C10 witness: a delete answered 404 gave the not-found message.
C10_Witness ==
    /\ HasReturned("cancel_event")
    /\ \E c \in CallsOf("delete") : c.outcome = HttpError(404)
    /\ ResultText = NotFoundCancel

\* The bound strings of a list_event run that were supplied and do not parse.
UnresolvableBounds ==
    {b \in {"time_min_str", "time_max_str"} :
        /\ TruthyStr(details[b])
        /\ parse_datetime_for_api(Val(details[b]), None) = None}

\* C11: a list_event run given a bound string that does not parse returns
\* the message naming that bound and makes no events().list call, so no
\* request ever goes out with an unparsable bound left open or replaced.
C11_UnresolvableBoundRejected ==
    (HasReturned("list_event") /\ ResultText # ConnectFailed) =>
        /\ ("time_min_str" \in UnresolvableBounds) =>
               (~HasCall("list") /\ ResultText = BadTimeMin)
        /\ ("time_max_str" \in UnresolvableBounds) =>
               (~HasCall("list") /\ ResultText \notin {NoEvents, FoundEvents, FoundEventsMore})

\* C12: the maxResults of every events().list request is 250 when
\* max_results is above 250 and max_results itself otherwise, and a run whose
\* lower bound resolves makes the request whatever max_results is.
C12_MaxResultsClamped ==
    /\ \A c \in CallsOf("list") :
          /\ details.max_results > 250 => c.body.maxResults = 250
          /\ details.max_results <= 250 => c.body.maxResults = details.max_results
    /\ (HasReturned("list_event") /\ ResultText \notin {ConnectFailed, BadTimeMin}) =>
          HasCall("list")
\* A list_event run asked for 1000 results has requested 250 and listed events.
C12_Witness ==
    /\ HasReturned("list_event") /\ details.max_results = 1000
    /\ \E c \in CallsOf("list") : c.body.maxResults = 250
    /\ ResultText = FoundEvents

\* C13: no invocation of create_event, list_event, change_event or
\* cancel_event is left by an exception: every one ends by returning a
\* message to its caller.
C13_NoExceptionCrossesBoundary ==
    /\ pc # "raised"
    /\ pc = "done" => result # None

\* The messages a handler returns for a CalendarService call that raised.
FailureTexts ==
    {NotFoundCancel} \cup
    UNION {{ApiError(doing), Unexpected(doing)} :
              doing \in {"creating event", "listing events", "updating event",
                         "canceling event"}}
\* How many calls of the invocation had operation op.
TimesCalled(op) == Cardinality({i \in DOMAIN calls : calls[i].op = op})

\* C14: an invocation calls each CalendarService operation at most once, and
\* a call that raised is the last call of the invocation: the handler has
\* returned the message of that failure and has called nothing after it.
C14_AtMostOnceNoRetry ==
    /\ \A op \in {"insert", "list", "get", "patch", "delete"} : TimesCalled(op) <= 1
    /\ \A i \in DOMAIN calls :
          calls[i].outcome # Ok =>
             /\ i = Len(calls)
             /\ pc = "done"
             /\ ResultText \in FailureTexts
\* A change_event run whose get answered and whose patch raised: two calls,
\* the failure last, and the failure message returned.
C14_Witness ==
    /\ HasReturned("change_event") /\ Len(calls) = 2
    /\ calls[1].op = "get" /\ calls[1].outcome = Ok
    /\ calls[2].op = "patch" /\ calls[2].outcome = HttpError(500)
    /\ ResultText = ApiError("updating event")

\* C17: every start and every end that an insert or a patch carries is a
\* datetime with a UTC offset, also when change_event took it from the
\* fetched event (the kept start of an event stored with a plain date).
C17_SentInstantsZoned ==
    \A c \in Writes :
       /\ c.body.start # None => SentDt(c.body.start).aware
       /\ c.body.end # None => SentDt(c.body.end).aware

\* A bound that list_event sent agrees with the midnight rule: sent is the
\* Optional ISO string of the request, str the bound string it was resolved
\* from and default_time the clock time list_event passed with it.
FollowsMidnightRule(sent, str, default_time) ==
    LET plain == isoparse(Val(parse_datetime_for_api(str, None)))
        dt == isoparse(Val(sent)) IN
    IF TimeOf(plain) = 0
    THEN /\ DateOf(dt) = DateOf(plain)
         /\ TimeOf(dt) = default_time
         /\ dt.aware /\ dt.off = plain.off
    ELSE dt = plain

\* C18: for a relative keyword and for a string of the general parser alike,
\* a bound that resolves to midnight (00:00 on the clock of its own zone) is
\* sent by list_event with the same date and zone and the clock time of its
\* default (00:00 for time_min_str, the last instant of the day for
\* time_max_str), and a bound that resolves to any other clock time is sent
\* as resolved.
C18_MidnightTakesDefaultTime ==
    \A c \in CallsOf("list") :
       /\ TruthyStr(details.time_min_str) =>
             FollowsMidnightRule(c.body.timeMin, Val(details.time_min_str), 0)
       /\ (TruthyStr(details.time_max_str) /\ c.body.timeMax # None) =>
             FollowsMidnightRule(c.body.timeMax, Val(details.time_max_str),
                                 TicksPerDay - 1)
\* list_event given 2025-06-05 as both bounds has sent the lower bound as
\* that day's 00:00 and the upper bound as the last instant of that day, in
\* the local zone.
C18_Witness ==
    /\ HasReturned("list_event")
    /\ details.time_min_str = Some("2025-06-05")
    /\ details.time_max_str = Some("2025-06-05")
    /\ \E c \in CallsOf("list") :
          /\ c.body.timeMin = Some(isoformat(Aware(At(1, 0, 0), local_tz)))
          /\ c.body.timeMax = Some(isoformat(Aware(At(1, 23, 59) + 1, local_tz)))

\* Handler p has returned from a change_event that was given no new start
\* but a new end or duration, its patch succeeded, and that patch is the
\* last call that reached the calendar.
JustPatchedKeepingStart(p) ==
    LET v == running[p] IN
    /\ v.pc = "done" /\ v.tool = "change_event" /\ v.event_to_update # None
    /\ ~TruthyStr(v.details.new_start_time_str)
    /\ TruthyStr(v.details.new_end_time_str) \/ TruthyInt(v.details.new_duration_minutes)
    /\ v.result # None /\ Val(v.result).text = Updated
    /\ trace # << >> /\ trace[Len(trace)] = Mark(p, "patch", v.details.event_id)
\* Another client modified the event of handler p between p's get and p's patch.
ModifiedBetween(p) ==
    LET id == running[p].details.event_id IN
    \E i, j, k \in DOMAIN trace :
       /\ i < j /\ j < k
       /\ trace[i] = Mark(p, "get", id)
       /\ trace[j] = Mark("external", "patch", id)
       /\ trace[k] = Mark(p, "patch", id)

\* C15: change_event reads and writes in two calls with nothing holding the
\* event in between: once its patch of an update without a new start has
\* succeeded, the event's start on the calendar is the start it fetched,
\* whatever another client wrote to the event since the fetch, and it has
\* reported success.
C15_StaleStartWrittenBack ==
    \A p \in Handlers :
       JustPatchedKeepingStart(p) =>
          Val(calendar[running[p].details.event_id]).start =
             Val(running[p].event_to_update).start
\* A duration-only update fetched the event at 10:00, another client moved
\* it to 16:00-17:00, and the patch put it back to 10:00-10:30 and reported
\* success.
C15_Witness ==
    \E p \in Handlers :
       /\ JustPatchedKeepingStart(p) /\ ModifiedBetween(p)
       /\ running[p].details.event_id = "evt1"
       /\ Val(running[p].event_to_update).start # Val(ExternalBody.start)
       /\ Val(calendar["evt1"]).start = Val(running[p].event_to_update).start
       /\ Val(calendar["evt1"]).end =
             TimedField(IsoDateTime(Aware(At(1, 10, 30), local_tz)))

\* Both handlers have returned, they were given different event ids, and no
\* other client touched the calendar.
BothDoneOnDifferentEvents ==
    /\ \A p \in Handlers : running[p].pc = "done"
    /\ running["a"].details.event_id # running["b"].details.event_id
    /\ ExternalEdits = 0
\* The results and the calendar are those of running first alone, then second.
SameAsInOrder(first, second) ==
    LET one == RunAlone(InitialCalendar, running[first])
        two == RunAlone(one.calendar, running[second]) IN
    /\ running[first].result = one.result
    /\ running[second].result = two.result
    /\ calendar = two.calendar

\* C16: when two invocations of change_event or cancel_event are given
\* different event ids, then in whatever order their calls reached the
\* calendar, each has returned what it returns when the two run one after
\* the other, and the calendar is the one that leaves, in either order.
C16_DifferentEventsIndependent ==
    BothDoneOnDifferentEvents =>
       SameAsInOrder("a", "b") /\ SameAsInOrder("b", "a")
\* Two updates of different events whose calls alternated (get, get, patch,
\* patch), both successful.
C16_Witness ==
    /\ BothDoneOnDifferentEvents
    /\ trace = <<Mark("a", "get", "evt1"), Mark("b", "get", "evt2"),
                 Mark("b", "patch", "evt2"), Mark("a", "patch", "evt1")>>
    /\ \A p \in Handlers : Val(running[p].result).text = Updated
    /\ calendar # InitialCalendar

\* The turns of the stored chat history.
StoredTurns ==
    IF chat_history = None THEN {}
    ELSE {Val(chat_history)[i] : i \in DOMAIN Val(chat_history)}

\* C19: when every request received belongs to the process session, the
\* stored chat history holds the turn of every request that was answered,
\* whether or not the agent runs of the requests overlapped.
C19_NoCompletedTurnLost ==
    (\A r \in Requests : ~StartsAfresh(requests[r].session_id)) =>
       \A r \in Requests : requests[r].pc = "answered" => r \in StoredTurns

====
